---- MODULE Spec2Model ----
(***************************************************************************)
(* Model of coil_check/check.c: the verifier of Coil puzzle solutions.     *)
(* The board file is loaded into a flat buffer with a blocked border, the  *)
(* solution header is read, and the token stream is replayed against the   *)
(* buffer, one cell per step.                                              *)
(***************************************************************************)
EXTENDS Integers, Sequences, FiniteSets, TLC

\* Largest number of playable cells (board_w * board_h) of a board file.
MaxCells == 6
\* Largest number of characters in the token stream of a solution file.
MaxTokens == 6

\* u4 is unsigned int.  The model checker's integers are 32-bit signed, so
\* the one wrapped value the program can produce, 0 - 1 = 4294967295, is
\* written -1 (the same bit pattern).
UINT_MAX == -1

\* n -= 1 on a u4.
U4Dec(v) == IF v = 0 THEN UINT_MAX ELSE v - 1

VARIABLES
    f,           \* the board file: header and characters
    debug_mode,  \* -d given on the command line
    board_w, board_h, w, h,
    b,           \* the replay grid, flat, (board_w+2)*(board_h+2) cells
    board,       \* snapshot of the loaded grid (debug mode only)
    n,           \* remaining count
    start_x, start_y,
    path,        \* key name of the solution file
    compressed,
    i,           \* index into b of the current cell (the pointer i)
    d,           \* current offset
    g,           \* characters fgetc(g) has returned so far
    pc,          \* position in main
    err,         \* diagnostic written to stderr, <<>> if none
    status,      \* exit status, -1 while running
    dump,        \* debug output written to stderr after the diagnostic
    trail        \* history: indices of the cells entered, in order

vars == <<f, debug_mode, board_w, board_h, w, h, b, board, n, start_x,
          start_y, path, compressed, i, d, g, pc, err, status, dump, trail>>

EXIT_SUCCESS == 0
EXIT_FAILURE == 1

----------------------------------------------------------------------------
\* Inputs.

RECURSIVE SeqsOfLen(_, _)
SeqsOfLen(S, k) ==
    IF k = 0 THEN {<<>>}
    ELSE {Append(s, c) : s \in SeqsOfLen(S, k - 1), c \in S}

\* Board texts for a W x H header: every full text over '.', 'X' and a
\* character that is neither ('?'), every shorter text, ending either
\* at end of file or with a read error ("EIO"), and, for the boards of at
\* most half the cells allowed, every full text of '.' and 'X' with one
\* more character after it.
BoardTexts(W, H) ==
    LET short == UNION {SeqsOfLen({".", "X", "?"}, k) : k \in 0..(W * H - 1)}
        long == IF 2 * W * H > MaxCells THEN {}
                ELSE {Append(s, c) : s \in SeqsOfLen({".", "X"}, W * H),
                                     c \in {".", "X", "?"}}
    IN  SeqsOfLen({".", "X", "?"}, W * H)
          \cup short \cup {Append(s, "EIO") : s \in short} \cup long

Dims == {wh \in (0..MaxCells) \X (0..MaxCells) : wh[1] * wh[2] <= MaxCells}

BoardFiles ==
    {[hdr_ok |-> FALSE, x |-> 0, y |-> 0, text |-> <<>>]}
      \cup UNION {{[hdr_ok |-> TRUE, x |-> wh[1], y |-> wh[2], text |-> t] :
                     t \in BoardTexts(wh[1], wh[2])} : wh \in Dims}

\* Characters fgetc(g) can return.  "z", a lowercase "l" and a space stand
\* for the characters outside L, U, R, D, CR, LF; "EOF" is end of file,
\* "EIO" is EOF with ferror set.
Directions == {"L", "U", "R", "D"}

\* Variant: a space ends the stream as CR and LF do.
Terminators_Space == {"EOF", "\r", "\n", " "}

Terminators == {"EOF", "\r", "\n"}
StreamChars == Directions \cup Terminators \cup {"z", "l", " ", "EIO"}

Keys == {"path", "qpath", "xpath"}

----------------------------------------------------------------------------
\* Pure parts of main.

\* Variant: the row stride is the board width, not the bordered width.
delta_BoardStride(ww, dir) ==
    CASE dir = 0 -> -1
      [] dir = 1 -> -(ww - 2)
      [] dir = 2 -> 1
      [] dir = 3 -> ww - 2

\* s4 const delta[] = { -1, -(s4)w, 1, (s4)w }, indexed from 0.
delta(ww, dir) ==
    CASE dir = 0 -> -1
      [] dir = 1 -> -ww
      [] dir = 2 -> 1
      [] dir = 3 -> ww

\* Variant: the cases of 'U' and 'D' are exchanged.
DirOf_UpDown(c) ==
    CASE c = "L" -> 0
      [] c = "U" -> 3
      [] c = "R" -> 2
      [] c = "D" -> 1

\* The switch on the token character.
DirOf(c) ==
    CASE c = "L" -> 0
      [] c = "U" -> 1
      [] c = "R" -> 2
      [] c = "D" -> 3

\* Variant: the counter is incremented for 'X' as well as for '.'.
RECURSIVE LoadLoop_CountAll(_, _, _, _, _, _, _, _)
LoadLoop_CountAll(text, ww, hh, y, x, k, bb, nn) ==
    IF y = hh - 1 THEN [err |-> <<>>, b |-> bb, n |-> nn]
    ELSE IF x = ww - 1
         THEN LoadLoop_CountAll(text, ww, hh, y + 1, 1, k, bb, nn)
    ELSE LET c == IF k + 1 <= Len(text) THEN text[k + 1] ELSE "EOF"
         IN  CASE c = "X" ->
                    LoadLoop_CountAll(text, ww, hh, y, x + 1, k + 1,
                                      [bb EXCEPT ![y * ww + x] = 0], nn + 1)
               [] c = "." ->
                    LoadLoop_CountAll(text, ww, hh, y, x + 1, k + 1,
                                      [bb EXCEPT ![y * ww + x] = 1], nn + 1)
               [] c = "EIO" -> [err |-> <<"read error">>, b |-> bb, n |-> nn]
               [] c = "EOF" ->
                    [err |-> <<"board too short">>, b |-> bb, n |-> nn]
               [] OTHER ->
                    [err |-> <<"invalid board char at %ux%u", y - 1, x - 1>>,
                     b |-> bb, n |-> nn]

\* Variant: the diagnostic names the column before the row.
RECURSIVE LoadLoop_ColRow(_, _, _, _, _, _, _, _)
LoadLoop_ColRow(text, ww, hh, y, x, k, bb, nn) ==
    IF y = hh - 1 THEN [err |-> <<>>, b |-> bb, n |-> nn]
    ELSE IF x = ww - 1
         THEN LoadLoop_ColRow(text, ww, hh, y + 1, 1, k, bb, nn)
    ELSE LET c == IF k + 1 <= Len(text) THEN text[k + 1] ELSE "EOF"
         IN  CASE c = "X" ->
                    LoadLoop_ColRow(text, ww, hh, y, x + 1, k + 1,
                                    [bb EXCEPT ![y * ww + x] = 0], nn)
               [] c = "." ->
                    LoadLoop_ColRow(text, ww, hh, y, x + 1, k + 1,
                                    [bb EXCEPT ![y * ww + x] = 1], nn + 1)
               [] c = "EIO" -> [err |-> <<"read error">>, b |-> bb, n |-> nn]
               [] c = "EOF" ->
                    [err |-> <<"board too short">>, b |-> bb, n |-> nn]
               [] OTHER ->
                    [err |-> <<"invalid board char at %ux%u", x - 1, y - 1>>,
                     b |-> bb, n |-> nn]

\* The board loading loops: y = 1..h-2, x = 1..w-2, one fgetc per cell; k is
\* the number of characters read so far.
RECURSIVE LoadLoop(_, _, _, _, _, _, _, _)
LoadLoop(text, ww, hh, y, x, k, bb, nn) ==
    IF y = hh - 1 THEN [err |-> <<>>, b |-> bb, n |-> nn]
    ELSE IF x = ww - 1 THEN LoadLoop(text, ww, hh, y + 1, 1, k, bb, nn)
    ELSE LET c == IF k + 1 <= Len(text) THEN text[k + 1] ELSE "EOF"
         IN  CASE c = "X" ->
                    LoadLoop(text, ww, hh, y, x + 1, k + 1,
                             [bb EXCEPT ![y * ww + x] = 0], nn)
               [] c = "." ->
                    LoadLoop(text, ww, hh, y, x + 1, k + 1,
                             [bb EXCEPT ![y * ww + x] = 1], nn + 1)
               [] c = "EIO" -> [err |-> <<"read error">>, b |-> bb, n |-> nn]
               [] c = "EOF" ->
                    [err |-> <<"board too short">>, b |-> bb, n |-> nn]
               [] OTHER ->
                    [err |-> <<"invalid board char at %ux%u", y - 1, x - 1>>,
                     b |-> bb, n |-> nn]

\* The indices y * w + x the loading loops write to, as a set.
RECURSIVE LoadWrites(_, _, _, _, _, _)
LoadWrites(text, ww, hh, y, x, k) ==
    IF y = hh - 1 THEN {}
    ELSE IF x = ww - 1 THEN LoadWrites(text, ww, hh, y + 1, 1, k)
    ELSE IF k + 1 <= Len(text) /\ text[k + 1] \in {"X", "."}
         THEN {y * ww + x} \cup LoadWrites(text, ww, hh, y, x + 1, k + 1)
         ELSE {}

\* Variant: the buffer is allocated without clearing; every cell reads 1.
Calloc_Unset(cells) == [k \in 0..(cells - 1) |-> 1]

\* calloc(h * w, 1): all cells blocked.
Calloc(cells) == [k \in 0..(cells - 1) |-> 0]

\* Variant: the start coordinates are used without the border offset.
StartCheck_NoOffset(bb, nn, ww, bw, bh, sx, sy) ==
    IF sy >= bh \/ sx >= bw
    THEN [err |-> <<"start position not on board">>, i |-> 0, b |-> bb,
          n |-> nn]
    ELSE IF bb[sy * ww + sx] = 0
         THEN [err |-> <<"start position is blocked">>, i |-> sy * ww + sx,
               b |-> bb, n |-> nn]
         ELSE [err |-> <<>>, i |-> sy * ww + sx,
               b |-> [bb EXCEPT ![sy * ww + sx] = 0], n |-> U4Dec(nn)]

\* Variant: the start cell is marked but not counted.
StartCheck_NoDec(bb, nn, ww, bw, bh, sx, sy) ==
    IF sy >= bh \/ sx >= bw
    THEN [err |-> <<"start position not on board">>, i |-> 0, b |-> bb,
          n |-> nn]
    ELSE IF bb[(sy + 1) * ww + sx + 1] = 0
         THEN [err |-> <<"start position is blocked">>,
               i |-> (sy + 1) * ww + sx + 1, b |-> bb, n |-> nn]
         ELSE [err |-> <<>>, i |-> (sy + 1) * ww + sx + 1,
               b |-> [bb EXCEPT ![(sy + 1) * ww + sx + 1] = 0], n |-> nn]

\* Variant: the bounds are tested with > in place of >=.
StartCheck_OffByOne(bb, nn, ww, bw, bh, sx, sy) ==
    IF sy > bh \/ sx > bw
    THEN [err |-> <<"start position not on board">>, i |-> 0, b |-> bb,
          n |-> nn]
    ELSE IF bb[(sy + 1) * ww + sx + 1] = 0
         THEN [err |-> <<"start position is blocked">>,
               i |-> (sy + 1) * ww + sx + 1, b |-> bb, n |-> nn]
         ELSE [err |-> <<>>, i |-> (sy + 1) * ww + sx + 1,
               b |-> [bb EXCEPT ![(sy + 1) * ww + sx + 1] = 0],
               n |-> U4Dec(nn)]

\* Variant: the start cell is counted but not marked (*i = 0 is missing).
StartCheck_NoMark(bb, nn, ww, bw, bh, sx, sy) ==
    IF sy >= bh \/ sx >= bw
    THEN [err |-> <<"start position not on board">>, i |-> 0, b |-> bb,
          n |-> nn]
    ELSE LET y == sy + 1
             x == sx + 1
         IN  IF bb[y * ww + x] = 0
             THEN [err |-> <<"start position is blocked">>, i |-> y * ww + x,
                   b |-> bb, n |-> nn]
             ELSE [err |-> <<>>, i |-> y * ww + x, b |-> bb, n |-> U4Dec(nn)]

\* Variant: the start cell is tested before the bounds.
StartCheck_BlockedFirst(bb, nn, ww, bw, bh, sx, sy) ==
    LET y == sy + 1
        x == sx + 1
    IN  IF y * ww + x \in DOMAIN bb /\ bb[y * ww + x] = 0
        THEN [err |-> <<"start position is blocked">>, i |-> y * ww + x,
              b |-> bb, n |-> nn]
        ELSE IF sy >= bh \/ sx >= bw
        THEN [err |-> <<"start position not on board">>, i |-> 0, b |-> bb,
              n |-> nn]
        ELSE [err |-> <<>>, i |-> y * ww + x,
              b |-> [bb EXCEPT ![y * ww + x] = 0], n |-> U4Dec(nn)]

\* The tests on the start position and the first cell: y = start_y + 1,
\* x = start_x + 1, i = &b[y * w + x], n -= 1, *i = 0.
StartCheck(bb, nn, ww, bw, bh, sx, sy) ==
    IF sy >= bh \/ sx >= bw
    THEN [err |-> <<"start position not on board">>, i |-> 0, b |-> bb,
          n |-> nn]
    ELSE LET y == sy + 1
             x == sx + 1
         IN  IF bb[y * ww + x] = 0
             THEN [err |-> <<"start position is blocked">>, i |-> y * ww + x,
                   b |-> bb, n |-> nn]
             ELSE [err |-> <<>>, i |-> y * ww + x,
                   b |-> [bb EXCEPT ![y * ww + x] = 0], n |-> U4Dec(nn)]

\* Variant: only the end of the buffer blocks a direction.
Blocked_Border(bb, ii, dd) == ii + dd \notin DOMAIN bb

\* Variant: the test reads the current cell, not the neighbour.
Blocked_Here(bb, ii, dd) == bb[ii] = 0

\* if (!i[d]): the neighbour at offset dd is blocked.
Blocked(bb, ii, dd) == bb[ii + dd] = 0

\* The coverage test at end_of_path: the diagnostic and the exit status.
Coverage(nn) ==
    IF nn # 0
    THEN [err |-> <<"path misses %u fields", nn>>, status |-> EXIT_FAILURE]
    ELSE [err |-> <<>>, status |-> EXIT_SUCCESS]

\* Variant: the body moves and counts but does not mark the cell.
StepBody_NoMark(bb, ii, nn, dd) ==
    [b |-> bb, i |-> ii + dd, n |-> U4Dec(nn)]

\* Variant: the body moves and marks but does not count.
StepBody_NoCount(bb, ii, nn, dd) ==
    [b |-> [bb EXCEPT ![ii + dd] = 0], i |-> ii + dd, n |-> nn]

\* One iteration of the do-while body: n -= 1; i += d; *i = 0.
StepBody(bb, ii, nn, dd) ==
    [b |-> [bb EXCEPT ![ii + dd] = 0], i |-> ii + dd, n |-> U4Dec(nn)]

\* Variant: the test for "no free neighbours" is missing; the scan commits
\* to the first direction.
RECURSIVE ScanFrom_NoDeadEnd(_, _, _, _)
ScanFrom_NoDeadEnd(bb, ii, ww, dir) ==
    IF dir = 4 THEN [decision |-> FALSE, d |-> delta(ww, 0)]
    ELSE IF bb[ii + delta(ww, dir)] = 0
         THEN ScanFrom_NoDeadEnd(bb, ii, ww, dir + 1)
    ELSE IF dir < 2 /\ bb[ii + delta(ww, dir + 2)] # 0
         THEN [decision |-> TRUE, d |-> delta(ww, dir)]
         ELSE [decision |-> FALSE, d |-> delta(ww, dir)]

\* Variant: the scan never commits; every run is followed by a read.
ScanFrom_Decide(bb, ii, ww, dir) == [decision |-> TRUE, d |-> delta(ww, 3)]

\* Variant: the opposite direction is tested for Left only (dir < 1).
RECURSIVE ScanFrom_LeftOnly(_, _, _, _)
ScanFrom_LeftOnly(bb, ii, ww, dir) ==
    IF dir = 4 THEN [decision |-> TRUE, d |-> delta(ww, 3)]
    ELSE IF bb[ii + delta(ww, dir)] = 0
         THEN ScanFrom_LeftOnly(bb, ii, ww, dir + 1)
    ELSE IF dir < 1 /\ bb[ii + delta(ww, dir + 2)] # 0
         THEN [decision |-> TRUE, d |-> delta(ww, dir)]
         ELSE [decision |-> FALSE, d |-> delta(ww, dir)]

\* Variant: the test of the opposite direction is missing.
RECURSIVE ScanFrom_NoOpposite(_, _, _, _)
ScanFrom_NoOpposite(bb, ii, ww, dir) ==
    IF dir = 4 THEN [decision |-> TRUE, d |-> delta(ww, 3)]
    ELSE IF bb[ii + delta(ww, dir)] = 0
         THEN ScanFrom_NoOpposite(bb, ii, ww, dir + 1)
         ELSE [decision |-> FALSE, d |-> delta(ww, dir)]

\* The scan for the only free direction: "decision" or the offset committed.
RECURSIVE ScanFrom(_, _, _, _)
ScanFrom(bb, ii, ww, dir) ==
    IF dir = 4 THEN [decision |-> TRUE, d |-> delta(ww, 3)]
    ELSE IF bb[ii + delta(ww, dir)] = 0 THEN ScanFrom(bb, ii, ww, dir + 1)
    ELSE IF dir < 2 /\ bb[ii + delta(ww, dir + 2)] # 0
         THEN [decision |-> TRUE, d |-> delta(ww, dir)]
         ELSE [decision |-> FALSE, d |-> delta(ww, dir)]

\* Variant: the snapshot is not consulted; every blocked cell shows 'X'.
print_board_state_Grid(bb, ww, hh, curr_x, curr_y) ==
    [b |-> bb,
     out |->
        [size |-> <<ww - 2, hh - 2>>,
         pos |-> <<curr_x - 1, curr_y - 1>>,
         rows |->
            [y \in 1..(hh - 2) |->
                [x \in 1..(ww - 2) |->
                    IF x = curr_x /\ y = curr_y THEN "@"
                    ELSE IF bb[y * ww + x] = 0 THEN "X"
                    ELSE "."]]]]

\* Variant: the dump marks the current position in the grid it is given.
print_board_state_Marks(bb, ww, hh, curr_x, curr_y) ==
    [b |-> [bb EXCEPT ![curr_y * ww + curr_x] = 1],
     out |->
        [size |-> <<ww - 2, hh - 2>>,
         pos |-> <<curr_x - 1, curr_y - 1>>,
         rows |->
            [y \in 1..(hh - 2) |->
                [x \in 1..(ww - 2) |->
                    IF x = curr_x /\ y = curr_y THEN "@"
                    ELSE IF bb[y * ww + x] = 0
                         THEN IF board[y * ww + x] = 0 THEN "X" ELSE "#"
                         ELSE "."]]]]

\* print_board_state(b, w, h, curr_x, curr_y): the text written (board
\* size, current position, one row of glyphs per board row) and the
\* buffer b as the call leaves it.  The global board is the snapshot.
print_board_state(bb, ww, hh, curr_x, curr_y) ==
    [b |-> bb,
     out |->
        [size |-> <<ww - 2, hh - 2>>,
         pos |-> <<curr_x - 1, curr_y - 1>>,
         rows |->
            [y \in 1..(hh - 2) |->
                [x \in 1..(ww - 2) |->
                    IF x = curr_x /\ y = curr_y THEN "@"
                    ELSE IF bb[y * ww + x] = 0
                         THEN IF board[y * ww + x] = 0 THEN "X" ELSE "#"
                         ELSE "."]]]]

\* Variant: the scan follows every run, whatever the encoding.
AfterRun_Scan(comp) == "scan"

\* if (!compressed) break: where control goes when a run has ended.
AfterRun(comp) == IF ~comp THEN "decision" ELSE "scan"

\* The do-while loop: steps until the next cell at offset dd is blocked.
RECURSIVE ForcedRun(_, _, _, _)
ForcedRun(bb, ii, nn, dd) ==
    LET s == StepBody(bb, ii, nn, dd)
    IN  IF ~Blocked(s.b, s.i, dd) THEN ForcedRun(s.b, s.i, s.n, dd) ELSE s

\* Variant: the scan is made once; after the run it commits to, the next
\* character is read.
Runs_Once(bb, ii, nn, dd, ww, comp) ==
    LET s == ForcedRun(bb, ii, nn, dd)
        sc == ScanFrom(s.b, s.i, ww, 0)
    IN  IF AfterRun(comp) = "decision" \/ sc.decision THEN s
        ELSE ForcedRun(s.b, s.i, s.n, sc.d)

\* The inner for (;;): a run, then, when compressed, the scan and further
\* runs until the scan ends at "decision".
RECURSIVE Runs(_, _, _, _, _, _)
Runs(bb, ii, nn, dd, ww, comp) ==
    LET s == ForcedRun(bb, ii, nn, dd)
        sc == ScanFrom(s.b, s.i, ww, 0)
    IN  IF AfterRun(comp) = "decision" \/ sc.decision THEN s
        ELSE Runs(s.b, s.i, s.n, sc.d, ww, comp)

\* The outer for (;;) and end_of_path on the stream s; the end of s is
\* end of file.
RECURSIVE Replay(_, _, _, _, _, _)
Replay(bb, ii, nn, ww, comp, s) ==
    LET c == IF s = <<>> THEN "EOF" ELSE Head(s)
    IN  CASE c \in Directions ->
                IF Blocked(bb, ii, delta(ww, DirOf(c)))
                THEN [err |-> <<"direction is blocked">>,
                      status |-> EXIT_FAILURE]
                ELSE LET r == Runs(bb, ii, nn, delta(ww, DirOf(c)), ww, comp)
                     IN  Replay(r.b, r.i, r.n, ww, comp, Tail(s))
          [] c = "EIO" -> [err |-> <<"read error">>, status |-> EXIT_FAILURE]
          [] c \in Terminators -> Coverage(nn)
          [] OTHER ->
                [err |-> <<"invalid char in path">>, status |-> EXIT_FAILURE]

\* Check solution on a loaded grid: key name, start position, replay.
Verify(bb, nn, ww, bw, bh, key, sx, sy, s) ==
    IF key \notin {"path", "qpath"}
    THEN [err |-> <<"did not recognize path type">>, status |-> EXIT_FAILURE]
    ELSE LET sc == StartCheck(bb, nn, ww, bw, bh, sx, sy)
         IN  IF sc.err # <<>>
             THEN [err |-> sc.err, status |-> EXIT_FAILURE]
             ELSE Replay(sc.b, sc.i, sc.n, ww, key = "qpath", s)

----------------------------------------------------------------------------
\* The program.

\* The state at the entry of main, before the board file is read.
Start ==
    /\ debug_mode \in BOOLEAN
    /\ board_w = 0 /\ board_h = 0 /\ w = 0 /\ h = 0
    /\ b = <<>> /\ board = <<>>
    /\ n = 0 /\ start_x = 0 /\ start_y = 0
    /\ path = "" /\ compressed = FALSE
    /\ i = 0 /\ d = 0
    /\ g = <<>>
    /\ pc = "read_board"
    /\ err = <<>> /\ status = -1
    /\ dump = <<>>
    /\ trail = <<>>

\* The board of the README's example: x=3&y=3&board=X.......X
ExampleBoard ==
    [hdr_ok |-> TRUE, x |-> 3, y |-> 3,
     text |-> <<"X", ".", ".", ".", ".", ".", ".", ".", "X">>]

\* A board with a ring of eight cells entered from a stub on the right,
\* x=4&y=3&board=...X.X.....X: a run from the stub ends at a cell with
\* both Up and Down free.
RingBoard ==
    [hdr_ok |-> TRUE, x |-> 4, y |-> 3,
     text |-> <<".", ".", ".", "X",
                ".", "X", ".", ".",
                ".", ".", ".", "X">>]

\* Board files whose header holds a width or a height within two of
\* UINT_MAX, with texts of at most two cells.
WideBoards ==
    {[hdr_ok |-> TRUE, x |-> wh[1], y |-> wh[2], text |-> t] :
        wh \in ({UINT_MAX, UINT_MAX - 1} \X {0, 1})
                  \cup ({1} \X {UINT_MAX, UINT_MAX - 1}),
        t \in UNION {SeqsOfLen({".", "X"}, k) : k \in 0..2}}

\* Every board file within the bounds, and the two larger boards.
Init ==
    /\ f \in BoardFiles \cup {ExampleBoard, RingBoard}
    /\ Start

InitExample ==
    /\ f = ExampleBoard
    /\ Start

Exit(msg, code) ==
    /\ err' = msg
    /\ status' = code
    /\ pc' = "exit"

\* Read board: header, allocation, loading loops.
ReadBoard ==
    /\ pc = "read_board"
    /\ IF ~f.hdr_ok
       THEN /\ Exit(<<"could not parse board size">>, EXIT_FAILURE)
            /\ UNCHANGED <<board_w, board_h, w, h, b, board, n>>
       ELSE LET hh == f.y + 2
                ww == f.x + 2
                ld == LoadLoop(f.text, ww, hh, 1, 1, 0,
                               Calloc(hh * ww), 0)
                wr == LoadWrites(f.text, ww, hh, 1, 1, 0)
            IN  /\ board_w' = f.x
                /\ board_h' = f.y
                /\ h' = hh
                /\ w' = ww
                /\ b' = ld.b
                /\ board' = IF debug_mode THEN ld.b ELSE <<>>
                /\ n' = ld.n
                /\ \E outcome \in IF wr \subseteq 0..(hh * ww - 1)
                                   THEN {"defined"}
                                   ELSE {"defined", "crash"} :
                      IF outcome = "crash"
                      THEN /\ pc' = "crash"
                           /\ UNCHANGED <<err, status>>
                      ELSE IF ld.err # <<>>
                      THEN Exit(ld.err, EXIT_FAILURE)
                      ELSE /\ pc' = "check_solution"
                           /\ UNCHANGED <<err, status>>
    /\ UNCHANGED <<f, debug_mode, start_x, start_y, path, compressed, i, d,
                   g, dump, trail>>

\* Check solution: header, key name, start position, first cell.
CheckSolution ==
    /\ pc = "check_solution"
    /\ \/ /\ Exit(<<"could not parse start position">>, EXIT_FAILURE)
          /\ UNCHANGED <<start_x, start_y, path, compressed, i, n, b, dump,
                         trail>>
       \/ \E sx \in 0..MaxCells, sy \in 0..MaxCells, key \in Keys :
            /\ start_x' = sx
            /\ start_y' = sy
            /\ path' = key
            /\ IF key \notin {"path", "qpath"}
               THEN /\ Exit(<<"did not recognize path type">>, EXIT_FAILURE)
                    /\ UNCHANGED <<compressed, i, n, b, dump, trail>>
               ELSE LET sc == StartCheck(b, n, w, board_w, board_h, sx, sy)
                        pbs == print_board_state(sc.b, w, h, sx + 1, sy + 1)
                    IN  /\ compressed' = (key = "qpath")
                        /\ i' = sc.i
                        /\ n' = sc.n
                        /\ CASE sc.err = <<"start position not on board">> ->
                                  /\ Exit(sc.err, EXIT_FAILURE)
                                  /\ dump' =
                                       IF debug_mode
                                       THEN <<<<"Board dimensions: %ux%u",
                                                board_w, board_h>>,
                                              <<"Start position: (%u,%u)",
                                                sx, sy>>>>
                                       ELSE <<>>
                                  /\ b' = sc.b
                                  /\ UNCHANGED trail
                             [] sc.err = <<"start position is blocked">> ->
                                  /\ Exit(sc.err, EXIT_FAILURE)
                                  /\ dump' = IF debug_mode THEN <<pbs.out>>
                                             ELSE <<>>
                                  /\ b' = IF debug_mode THEN pbs.b ELSE sc.b
                                  /\ UNCHANGED trail
                             [] OTHER ->
                                  /\ trail' = <<sc.i>>
                                  /\ b' = sc.b
                                  /\ pc' = "decision"
                                  /\ UNCHANGED <<err, status, dump>>
    /\ UNCHANGED <<f, debug_mode, board_w, board_h, w, h, board, d, g>>

\* Top of the outer loop: fgetc(g), the switch, and the blocked test.
NextToken ==
    /\ pc = "decision"
    /\ \E c \in StreamChars :
         /\ Len(g) = MaxTokens => c \in {"EOF", "EIO"}
         /\ g' = Append(g, c)
         /\ CASE c \in Directions ->
                   /\ d' = delta(w, DirOf(c))
                   /\ IF Blocked(b, i, delta(w, DirOf(c)))
                      THEN LET pbs == print_board_state(b, w, h, i % w,
                                                        i \div w)
                           IN  /\ Exit(<<"direction is blocked">>,
                                       EXIT_FAILURE)
                               /\ dump' =
                                    IF debug_mode
                                    THEN <<<<"Attempted direction: %c", c>>,
                                           pbs.out>>
                                    ELSE <<>>
                               /\ b' = IF debug_mode THEN pbs.b ELSE b
                      ELSE /\ pc' = "run"
                           /\ UNCHANGED <<err, status, dump, b>>
              [] c = "EIO" ->
                   /\ Exit(<<"read error">>, EXIT_FAILURE)
                   /\ UNCHANGED <<d, dump, b>>
              [] c \in Terminators ->
                   /\ pc' = "end_of_path"
                   /\ UNCHANGED <<d, err, status, dump, b>>
              [] OTHER ->
                   /\ Exit(<<"invalid char in path">>, EXIT_FAILURE)
                   /\ UNCHANGED <<d, dump, b>>
    /\ UNCHANGED <<f, debug_mode, board_w, board_h, w, h, board, n,
                   start_x, start_y, path, compressed, i, trail>>

\* One iteration of the do-while loop, its condition, and the test
\* "if (!compressed) break".
RunStep ==
    /\ pc = "run"
    /\ LET s == StepBody(b, i, n, d)
       IN  /\ n' = s.n
           /\ i' = s.i
           /\ b' = s.b
           /\ trail' = Append(trail, s.i)
           /\ pc' = IF ~Blocked(s.b, s.i, d) THEN "run"
                    ELSE AfterRun(compressed)
    /\ UNCHANGED <<f, debug_mode, board_w, board_h, w, h, board, start_x,
                   start_y, path, compressed, d, g, err, status, dump>>

\* The scan over the four directions after a run (compressed only).
AutoExtend ==
    /\ pc = "scan"
    /\ LET s == ScanFrom(b, i, w, 0)
       IN  /\ d' = s.d
           /\ pc' = IF s.decision THEN "decision" ELSE "run"
    /\ UNCHANGED <<f, debug_mode, board_w, board_h, w, h, b, board, n,
                   start_x, start_y, path, compressed, i, g, err, status,
                   dump, trail>>

\* end_of_path: the coverage test.
EndOfPath ==
    /\ pc = "end_of_path"
    /\ Exit(Coverage(n).err, Coverage(n).status)
    /\ LET pbs == print_board_state(b, w, h, i % w, i \div w)
       IN  IF n # 0 /\ debug_mode
           THEN /\ dump' = <<pbs.out, <<"Remaining unvisited cells: %u", n>>>>
                /\ b' = pbs.b
           ELSE UNCHANGED <<dump, b>>
    /\ UNCHANGED <<f, debug_mode, board_w, board_h, w, h, board, n,
                   start_x, start_y, path, compressed, i, d, g, trail>>

Next ==
    \/ ReadBoard
    \/ CheckSolution
    \/ NextToken
    \/ RunStep
    \/ AutoExtend
    \/ EndOfPath

Spec == Init /\ [][Next]_vars

\* The program keeps running until it exits: a sequential process that is
\* never suspended.
SpecFair == Init /\ [][Next]_vars /\ WF_vars(Next)

\* The program on the board files of Init and on those with a wide header.
InitWide ==
    /\ f \in BoardFiles \cup {ExampleBoard, RingBoard} \cup WideBoards
    /\ Start

SpecWide == InitWide /\ [][Next]_vars

\* The same program run on the README's example board.
SpecExample == InitExample /\ [][Next]_vars

----------------------------------------------------------------------------
TypeOK ==
    /\ pc \in {"read_board", "check_solution", "decision", "run", "scan",
               "end_of_path", "exit", "crash"}
    /\ n \in Nat \cup {UINT_MAX}
    /\ status \in {-1, EXIT_SUCCESS, EXIT_FAILURE}

----------------------------------------------------------------------------
\* The puzzle as the README states it, in (row, column) coordinates of the
\* board file, independent of the flat buffer.

\* The board file is well formed: header read, at least x*y characters,
\* each of the first x*y '.' or 'X'.
WellFormed ==
    /\ f.hdr_ok
    /\ Len(f.text) >= f.x * f.y
    /\ \A k \in 1..(f.x * f.y) : f.text[k] \in {".", "X"}

\* Character of the board file at row r, column c (row-major, top-left
\* first).
CharAt(r, c) == f.text[r * f.x + c + 1]

Cells == (0..(f.y - 1)) \X (0..(f.x - 1))

\* The empty cells of the board file.
OrigOpen == {rc \in Cells : CharAt(rc[1], rc[2]) = "."}

\* Row and column change of a direction letter.
Move(c) ==
    CASE c = "L" -> <<0, -1>>
      [] c = "U" -> <<-1, 0>>
      [] c = "R" -> <<0, 1>>
      [] c = "D" -> <<1, 0>>

Shift(p, m) == <<p[1] + m[1], p[2] + m[2]>>

\* "When you start moving, you continue until you hit a wall, the edge of
\* the board, or a previously visited square."
RECURSIVE Slide(_, _, _)
Slide(p, open, m) ==
    IF Shift(p, m) \in open
    THEN Slide(Shift(p, m), open \ {Shift(p, m)}, m)
    ELSE [legal |-> TRUE, pos |-> p, open |-> open]

\* A sequence of direction letters played from position p with the cells
\* of open still to visit: each letter must enter an empty unvisited
\* neighbour.
RECURSIVE Walk(_, _, _)
Walk(ts, p, open) ==
    IF ts = <<>> THEN [legal |-> TRUE, pos |-> p, open |-> open]
    ELSE IF Shift(p, Move(Head(ts))) \notin open
         THEN [legal |-> FALSE, pos |-> p, open |-> open]
         ELSE LET s == Slide(p, open, Move(Head(ts)))
              IN  Walk(Tail(ts), s.pos, s.open)

StartCell == <<start_y, start_x>>

\* The walk of the letters ts from the start position of the solution.
GameWalk(ts) == Walk(ts, StartCell, OrigOpen \ {StartCell})

AllDirections(ts) == \A k \in 1..Len(ts) : ts[k] \in Directions

\* ts visits every empty cell exactly once under the movement rule.
LegalCover(ts) ==
    /\ AllDirections(ts)
    /\ StartCell \in OrigOpen
    /\ GameWalk(ts).legal
    /\ GameWalk(ts).open = {}

Front(s) == SubSeq(s, 1, Len(s) - 1)
Last(s) == s[Len(s)]

\* The stream has been read to its end: the last character returned by
\* fgetc is end of file, CR or LF.
StreamEnded == g # <<>> /\ Last(g) \in Terminators

\* Index in the flat buffer of the cell at row r, column c, and back.
Idx(rc) == (rc[1] + 1) * (f.x + 2) + (rc[2] + 1)
RowCol(k) == <<(k \div (f.x + 2)) - 1, (k % (f.x + 2)) - 1>>

\* Cells of the buffer that are open.
OpenIn(bb) == {k \in DOMAIN bb : bb[k] # 0}

\* The replay has started: board loaded, start position accepted.
Replaying == trail # <<>>

----------------------------------------------------------------------------
\* C1 (completeness): in the explicit encoding, while the characters read
\* so far are direction letters forming a legal walk from an open start,
\* the program has not failed, and when a stream that visits every open
\* cell exactly once has been read to its end, the program exits with
\* status 0, no diagnostic and remaining count 0.
C1_Completeness ==
    (WellFormed /\ path = "path" /\ StartCell \in OrigOpen) =>
        /\ (AllDirections(g) /\ GameWalk(g).legal) =>
              (status = -1 /\ pc \in {"decision", "run"})
        /\ (StreamEnded /\ LegalCover(Front(g))) =>
              \/ pc = "end_of_path" /\ n = 0
              \/ pc = "exit" /\ status = EXIT_SUCCESS /\ n = 0 /\ err = <<>>

\* A covering stream of at least three letters has been accepted.
C1_Witness ==
    /\ pc = "exit" /\ path = "path" /\ WellFormed
    /\ StreamEnded /\ LegalCover(Front(g))
    /\ Len(g) >= 4
    /\ status = EXIT_SUCCESS

----------------------------------------------------------------------------
Abs(v) == IF v < 0 THEN -v ELSE v

\* Two buffer indices are orthogonal neighbours in (row, column) terms.
Adjacent(j, k) ==
    Abs(RowCol(j)[1] - RowCol(k)[1]) + Abs(RowCol(j)[2] - RowCol(k)[2]) = 1

\* C2 (soundness): when the program exits with status 0, the cells entered
\* are exactly the open cells of the board file, each entered once, the
\* first being the start cell; no wall or border cell was entered; and
\* each entered cell is an orthogonal neighbour of the one before it.
C2_Soundness ==
    status = EXIT_SUCCESS =>
        /\ WellFormed
        /\ trail # <<>> /\ trail[1] = Idx(StartCell)
        /\ \A j, k \in 1..Len(trail) : j # k => trail[j] # trail[k]
        /\ {trail[k] : k \in 1..Len(trail)} = {Idx(rc) : rc \in OrigOpen}
        /\ \A k \in 1..Len(trail) : RowCol(trail[k]) \in OrigOpen
        /\ \A k \in 2..Len(trail) : Adjacent(trail[k - 1], trail[k])

\* A solution that turns at least twice on a board with a wall has been
\* accepted.
C2_Witness ==
    /\ status = EXIT_SUCCESS
    /\ Len(trail) >= 4
    /\ OrigOpen # Cells
    /\ Len(g) >= 3

\* C3 (remaining count): from the end of board loading on, n is the number
\* of open cells of the grid; a step changes n only by subtracting one, and
\* does so exactly when one cell goes from open to blocked; no cell that
\* was blocked is counted, and n never wraps.
C3_RemainingCount ==
    /\ [](WellFormed /\ pc # "read_board" => n = Cardinality(OpenIn(b)))
    /\ [][(WellFormed /\ pc # "read_board") =>
            LET closed == {k \in DOMAIN b : b[k] # 0 /\ b'[k] = 0}
            IN  /\ DOMAIN b' = DOMAIN b
                /\ \A k \in DOMAIN b : b[k] = 0 => b'[k] = 0
                /\ Cardinality(closed) <= 1
                /\ n' = n - Cardinality(closed)
                /\ n' # UINT_MAX]_vars

\* A forced run of the compressed encoding has just entered its second
\* cell and open cells remain.
C3_Witness ==
    /\ compressed /\ pc = "run" /\ Len(trail) >= 3 /\ n >= 2
    /\ n = Cardinality(OpenIn(b))

----------------------------------------------------------------------------
\* The grid the board file describes: open exactly at the '.' cells, blocked
\* at the walls and on the border ring.
LoadedGrid ==
    [k \in 0..((f.x + 2) * (f.y + 2) - 1) |->
        IF RowCol(k) \in OrigOpen THEN 1 ELSE 0]

\* C4: with a well-formed board, a recognised key and a start inside the
\* board, a start on a wall cell ends the run with "start position is
\* blocked"; no stream character has been read and the grid is the loaded
\* grid.
C4_StartBlocked ==
    (/\ WellFormed
     /\ path \in {"path", "qpath"}
     /\ StartCell \in Cells
     /\ CharAt(start_y, start_x) = "X") =>
        /\ pc = "exit"
        /\ err = <<"start position is blocked">>
        /\ status = EXIT_FAILURE
        /\ g = <<>>
        /\ trail = <<>>
        /\ b = LoadedGrid

\* A start on a wall that has an open cell next to it has been rejected.
C4_Witness ==
    /\ err = <<"start position is blocked">>
    /\ WellFormed /\ OrigOpen # {}
    /\ start_x > 0 /\ CharAt(start_y, start_x - 1) = "."

\* The cells of the board file that are still to visit.
CurOpen == OrigOpen \ {RowCol(trail[k]) : k \in 1..Len(trail)}

\* C5: a step that reads a direction letter whose neighbour cell is a wall,
\* outside the board or already visited ends the run with "direction is
\* blocked", leaving the position, the grid and the remaining count as they
\* were; after the exit no character is read.
C5_BlockedDirection ==
    [][/\ (/\ pc = "decision"
           /\ g' # g
           /\ Last(g') \in Directions
           /\ Shift(RowCol(i), Move(Last(g'))) \notin CurOpen) =>
              /\ pc' = "exit"
              /\ err' = <<"direction is blocked">>
              /\ status' = EXIT_FAILURE
              /\ i' = i /\ b' = b /\ n' = n /\ trail' = trail
       /\ pc = "exit" => g' = g]_vars

\* A letter pointing at an already visited cell has been rejected in the
\* compressed encoding, after at least one accepted letter.
C5_Witness ==
    /\ pc = "exit" /\ err = <<"direction is blocked">>
    /\ compressed /\ Len(g) >= 2
    /\ Shift(RowCol(i), Move(Last(g))) \in OrigOpen

\* C6: when the stream has been read to its end and open cells remain in
\* the grid, the run ends with "path misses N fields", N being the number
\* of open cells left, which is the number of open cells of the board
\* file minus the number of cells visited; for the empty stream N is the
\* open count minus one.
C6_IncompleteCoverage ==
    (pc = "exit" /\ StreamEnded /\ Cardinality(OpenIn(b)) > 0) =>
        /\ err = <<"path misses %u fields", Cardinality(OpenIn(b))>>
        /\ status = EXIT_FAILURE
        /\ Cardinality(OpenIn(b)) =
              Cardinality(OrigOpen)
                - Cardinality({trail[k] : k \in 1..Len(trail)})
        /\ Len(g) = 1 => err[2] = Cardinality(OrigOpen) - 1

\* A stream of two accepted letters has ended with at least two cells
\* unvisited.
C6_Witness ==
    /\ pc = "exit" /\ StreamEnded /\ Len(g) = 3
    /\ Len(err) = 2 /\ err[2] >= 2

----------------------------------------------------------------------------
\* The README's example solution x=1&y=0&path=RDLDR.
RDLDR == <<"R", "D", "L", "D", "R">>

IsPrefix(s, t) == Len(s) <= Len(t) /\ SubSeq(t, 1, Len(s)) = s

\* The example board with the explicit encoding and start (1,0).
ExampleStart ==
    f = ExampleBoard /\ path = "path" /\ start_x = 1 /\ start_y = 0

\* C7: on the example board with start (1,0), the explicit stream RDLDR is
\* replayed without error and, once read to its end, gives exit status 0
\* with remaining count 0.
C7_ExampleAccepted ==
    ExampleStart =>
        /\ IsPrefix(g, RDLDR) => status = -1
        /\ (pc = "exit" /\ StreamEnded /\ Front(g) = RDLDR) =>
              (status = EXIT_SUCCESS /\ n = 0 /\ err = <<>>)

\* RDLDR has been read to its end on the example board.
C7_Witness ==
    ExampleStart /\ pc = "exit" /\ StreamEnded /\ Front(g) = RDLDR

\* C8 as stated: the example board has 8 open cells, and with start (1,0)
\* the explicit stream R ends with "path misses 6 fields", 6 being 8 minus
\* the number of cells visited.
C8_Original ==
    f = ExampleBoard =>
        /\ pc = "check_solution" => (n = 8 /\ Cardinality(OpenIn(b)) = 8)
        /\ (ExampleStart /\ pc = "exit" /\ StreamEnded
              /\ Front(g) = <<"R">>) =>
              /\ err = <<"path misses %u fields", 6>>
              /\ status = EXIT_FAILURE
              /\ err[2] = 8 - Len(trail)

\* C8 (amended): the example board has 7 open cells, and with start (1,0)
\* the explicit stream R ends with "path misses 5 fields": two cells have
\* been visited and 5 = 7 - 2.
C8_ExampleIncomplete ==
    f = ExampleBoard =>
        /\ pc = "check_solution" =>
              (n = 7 /\ Cardinality(OpenIn(b)) = 7 /\ Cardinality(OrigOpen) = 7)
        /\ (ExampleStart /\ pc = "exit" /\ StreamEnded
              /\ Front(g) = <<"R">>) =>
              /\ err = <<"path misses %u fields", 5>>
              /\ status = EXIT_FAILURE
              /\ Len(trail) = 2
              /\ err[2] = 7 - Len(trail)

\* The single letter R has been read to its end on the example board.
C8_Witness ==
    ExampleStart /\ pc = "exit" /\ StreamEnded /\ Front(g) = <<"R">>

----------------------------------------------------------------------------
\* A one-row corridor of at least three cells, all open.
Corridor == WellFormed /\ f.y = 1 /\ f.x >= 3 /\ OrigOpen = Cells

\* C9: on a one-row corridor of k >= 3 open cells, a compressed solution
\* that starts at an interior cell with one letter L or R runs to the
\* corridor end on that side, visits no cell twice and no cell of the
\* other side, makes no further move, and at end of stream fails with
\* "path misses N fields", N being the number of cells on the other side
\* of the start.
C9_CorridorOneToken ==
    (/\ Corridor /\ path = "qpath" /\ Replaying
     /\ start_x > 0 /\ start_x < f.x - 1
     /\ g # <<>> /\ g[1] \in {"L", "R"}) =>
        LET other == IF g[1] = "L" THEN f.x - 1 - start_x ELSE start_x
            far == IF g[1] = "L" THEN 0 ELSE f.x - 1
            lo == IF g[1] = "L" THEN 0 ELSE start_x
            hi == IF g[1] = "L" THEN start_x ELSE f.x - 1
        IN  /\ \A k \in 1..Len(trail) :
                  /\ RowCol(trail[k])[1] = 0
                  /\ RowCol(trail[k])[2] \in lo..hi
            /\ \A j, k \in 1..Len(trail) : j # k => trail[j] # trail[k]
            /\ pc \in {"decision", "end_of_path", "exit"} =>
                  (i = Idx(<<0, far>>) /\ n = other)
            /\ (pc = "exit" /\ Len(g) = 2 /\ StreamEnded) =>
                  /\ err = <<"path misses %u fields", other>>
                  /\ status = EXIT_FAILURE

\* On a corridor of five cells, a compressed solution starting in the
\* middle with one letter has ended.
C9_Witness ==
    /\ Corridor /\ f.x = 5 /\ path = "qpath" /\ start_x = 2
    /\ pc = "exit" /\ Len(g) = 2 /\ StreamEnded
    /\ g[1] \in {"L", "R"}
    /\ err = <<"path misses %u fields", 2>>

----------------------------------------------------------------------------
\* The compressed encoding derived from an explicit stream: the stream is
\* followed as the explicit replay follows it, and a letter other than the
\* first is left out when the scan at the cell where it is read commits to
\* that letter's direction.  From the first character that is not a
\* direction letter, or whose direction is blocked, the rest is kept.
RECURSIVE CompressFrom(_, _, _, _, _, _)
CompressFrom(bb, ii, nn, ww, s, first) ==
    IF s = <<>> THEN <<>>
    ELSE IF Head(s) \notin Directions THEN s
    ELSE IF Blocked(bb, ii, delta(ww, DirOf(Head(s)))) THEN s
    ELSE LET dd == delta(ww, DirOf(Head(s)))
             sc == ScanFrom(bb, ii, ww, 0)
             r == ForcedRun(bb, ii, nn, dd)
             rest == CompressFrom(r.b, r.i, r.n, ww, Tail(s), FALSE)
         IN  IF ~first /\ ~sc.decision /\ sc.d = dd
             THEN rest
             ELSE <<Head(s)>> \o rest

\* The grid and count the loader produces for the board file.
Loaded ==
    LoadLoop(f.text, f.x + 2, f.y + 2, 1, 1, 0,
             Calloc((f.y + 2) * (f.x + 2)), 0)

\* The compressed encoding of the characters read so far.
Compressed ==
    LET sc == StartCheck(Loaded.b, Loaded.n, f.x + 2, f.x, f.y,
                         start_x, start_y)
    IN  CompressFrom(sc.b, sc.i, sc.n, f.x + 2, g, TRUE)

\* The outcome of the same board and start with the compressed encoding
\* of the stream under the key qpath.
QpathOutcome ==
    Verify(Loaded.b, Loaded.n, f.x + 2, f.x, f.y, "qpath", start_x, start_y,
           Compressed)

\* An explicit replay whose stream has been read to its end.
ExplicitEnded ==
    WellFormed /\ path = "path" /\ Replaying /\ pc = "exit" /\ StreamEnded

\* C10 as stated: an explicit stream and its compressed encoding are both
\* accepted or both rejected.
C10_Original ==
    ExplicitEnded =>
        ((status = EXIT_SUCCESS) <=> (QpathOutcome.status = EXIT_SUCCESS))

\* C10 (amended): when an explicit stream is accepted, its compressed
\* encoding is accepted under qpath.
C10_AcceptedCompresses ==
    (ExplicitEnded /\ status = EXIT_SUCCESS) =>
        QpathOutcome.status = EXIT_SUCCESS

\* An accepted explicit stream whose compressed encoding is accepted and
\* keeps a letter other than the first while leaving others out.
C10_Witness ==
    /\ ExplicitEnded /\ status = EXIT_SUCCESS
    /\ Len(Compressed) < Len(g)
    /\ Len(Compressed) >= 3
    /\ QpathOutcome.status = EXIT_SUCCESS

\* The stepwise program and the replay operators agree on the outcome.
ReplayAgrees ==
    (WellFormed /\ pc = "exit" /\ path # "") =>
        Verify(Loaded.b, Loaded.n, f.x + 2, f.x, f.y, path, start_x, start_y,
               g) = [err |-> err, status |-> status]

----------------------------------------------------------------------------
\* C11: with a well-formed board of size W x H and a recognised key, a
\* start with x >= W or y >= H ends the run with "start position not on
\* board": the pointer i has not been set, the grid is the loaded grid and
\* no stream character has been read.  With W = 0 or H = 0 every start ends
\* this way.
C11_OutOfBounds ==
    (WellFormed /\ path \in {"path", "qpath"}) =>
        /\ (start_x >= f.x \/ start_y >= f.y) =>
              /\ pc = "exit"
              /\ err = <<"start position not on board">>
              /\ status = EXIT_FAILURE
              /\ i = 0 /\ trail = <<>> /\ g = <<>>
              /\ b = LoadedGrid
        /\ (f.x = 0 \/ f.y = 0) =>
              err = <<"start position not on board">>

\* A start in the column just right of a board with open cells, on a row
\* of the board, has been rejected.
C11_Witness ==
    /\ WellFormed /\ path \in {"path", "qpath"} /\ OrigOpen # {}
    /\ start_x = f.x /\ start_y < f.y
    /\ err = <<"start position not on board">>

\* The cells of the border ring of the buffer.
Border ==
    {k \in DOMAIN b : \/ k \div w \in {0, h - 1}
                       \/ k % w \in {0, w - 1}}

\* C12 (sentinel border): during the replay the current cell lies in the
\* playable area (column 1..W, row 1..H of the buffer), every cell of the
\* border ring is blocked, and the four neighbours of the current cell,
\* which are all the cells the blocked test, the run loop and the scan look
\* up, lie inside the (W+2) x (H+2) buffer.
C12_SentinelBorder ==
    (WellFormed /\ pc # "read_board") =>
        /\ DOMAIN b = 0..((board_w + 2) * (board_h + 2) - 1)
        /\ \A k \in Border : b[k] = 0
        /\ Replaying =>
              /\ i % w \in 1..board_w
              /\ i \div w \in 1..board_h
              /\ \A dir \in 0..3 : i + delta(w, dir) \in DOMAIN b
              /\ pc = "run" => i + d \in DOMAIN b /\ i + d \notin Border

\* A run of the compressed encoding has reached the last column of the
\* last row, next to two border cells.
C12_Witness ==
    /\ Replaying /\ compressed /\ pc = "scan"
    /\ i % w = board_w /\ i \div w = board_h
    /\ Len(trail) >= 3

----------------------------------------------------------------------------
\* The outcome of a run as the board file, the solution header and the
\* stream determine it, with no reference to the -d option.  (Allocation
\* is taken to succeed, as everywhere in this model.)
Outcome ==
    IF ~f.hdr_ok
    THEN [err |-> <<"could not parse board size">>, status |-> EXIT_FAILURE]
    ELSE IF Loaded.err # <<>>
    THEN [err |-> Loaded.err, status |-> EXIT_FAILURE]
    ELSE IF path = ""
    THEN [err |-> <<"could not parse start position">>,
          status |-> EXIT_FAILURE]
    ELSE Verify(Loaded.b, Loaded.n, f.x + 2, f.x, f.y, path, start_x,
                start_y, g)

\* The glyphs of a dump, as a set.
Glyphs(out) ==
    {out.rows[y][x] : y \in DOMAIN out.rows, x \in 1..out.size[1]}

----------------------------------------------------------------------------
\* Row and column change of a buffer offset.
DirVec(dd) ==
    CASE dd = -1 -> <<0, -1>>
      [] dd = -w -> <<-1, 0>>
      [] dd = 1 -> <<0, 1>>
      [] dd = w -> <<1, 0>>

\* C14 (forced run): while a run is in progress the next cell in its
\* direction is open; each step of the run enters exactly that cell, one
\* row or column further in the same direction, marks it (and no other
\* cell) visited, keeps the direction and reads no stream character; the
\* run goes on exactly when the next cell in the direction is still open.
C14_ForcedRun ==
    /\ [](WellFormed /\ pc = "run" =>
            /\ d \in {-1, -w, 1, w}
            /\ Shift(RowCol(i), DirVec(d)) \in CurOpen)
    /\ [][(WellFormed /\ pc = "run") =>
            /\ i' = i + d
            /\ RowCol(i') = Shift(RowCol(i), DirVec(d))
            /\ trail' = Append(trail, i')
            /\ b' = [b EXCEPT ![i'] = 0]
            /\ d' = d
            /\ g' = g
            /\ (pc' = "run") <=>
                   (Shift(RowCol(i'), DirVec(d)) \in CurOpen')]_vars

\* A run is in progress that has entered two cells in its direction and
\* has a third to enter.
C14_Witness ==
    /\ WellFormed /\ pc = "run" /\ Len(trail) >= 3
    /\ trail[Len(trail)] - trail[Len(trail) - 1] = d
    /\ trail[Len(trail) - 1] - trail[Len(trail) - 2] = d
    /\ d \in {-w, w}

----------------------------------------------------------------------------
\* The directions (0 Left, 1 Up, 2 Right, 3 Down) in which the neighbour
\* of the current cell is an empty cell not yet visited.
OpenDirs ==
    {dir \in 0..3 : Shift(RowCol(i), DirVec(delta(w, dir))) \in CurOpen}

\* The symmetric rule: commit to a direction exactly when it is the only
\* one whose neighbour is open in the buffer.
ScanSymmetric(bb, ii, ww) ==
    LET free == {dir \in 0..3 : bb[ii + delta(ww, dir)] # 0}
    IN  IF Cardinality(free) = 1
        THEN [decision |-> FALSE,
              d |-> delta(ww, CHOOSE dir \in free : TRUE)]
        ELSE [decision |-> TRUE, d |-> 0]

\* C15: where the scan runs (compressed encoding, a run has just ended),
\* at most two neighbours are open and two open ones are opposite each
\* other; the scan commits exactly when one neighbour is open, and then
\* to its direction; the scan step itself neither moves nor reads a
\* character, and leads to a run when it commits and to the next read
\* otherwise.  The symmetric rule decides the same at every such state,
\* hence in every replay.
C15_AutoCommit ==
    /\ [](WellFormed /\ pc = "scan" =>
            LET sc == ScanFrom(b, i, w, 0)
                sym == ScanSymmetric(b, i, w)
            IN  /\ compressed
                /\ Cardinality(OpenDirs) <= 2
                /\ Cardinality(OpenDirs) = 2 =>
                       OpenDirs \in {{0, 2}, {1, 3}}
                /\ sc.decision <=> Cardinality(OpenDirs) # 1
                /\ ~sc.decision => OpenDirs = {dir \in 0..3 :
                                                 delta(w, dir) = sc.d}
                /\ sym.decision = sc.decision
                /\ ~sc.decision => sym.d = sc.d)
    /\ [][(WellFormed /\ pc = "scan") =>
            /\ i' = i /\ b' = b /\ g' = g /\ trail' = trail /\ n' = n
            /\ IF Cardinality(OpenDirs) = 1
               THEN pc' = "run" /\ OpenDirs = {dir \in 0..3 :
                                                 delta(w, dir) = d'}
               ELSE pc' = "decision"]_vars

\* A run has ended at a cell whose only open neighbour is the one below;
\* the scan is about to commit to Down.
C15_Witness ==
    /\ WellFormed /\ pc = "scan" /\ compressed
    /\ OpenDirs = {3}
    /\ ~ScanFrom(b, i, w, 0).decision
    /\ Len(trail) >= 3

----------------------------------------------------------------------------
\* Number of open neighbours of cell ii in the buffer bb.
FreeCount(bb, ii, ww) ==
    Cardinality({dir \in 0..3 : bb[ii + delta(ww, dir)] # 0})

\* For each direction letter the compressed replay of s accepts, in
\* order, the number of open neighbours of the cell at which it is read.
RECURSIVE NeighboursAtTokens(_, _, _, _, _)
NeighboursAtTokens(bb, ii, nn, ww, s) ==
    IF s = <<>> THEN <<>>
    ELSE IF Head(s) \notin Directions THEN <<>>
    ELSE IF Blocked(bb, ii, delta(ww, DirOf(Head(s)))) THEN <<>>
    ELSE LET r == Runs(bb, ii, nn, delta(ww, DirOf(Head(s))), ww, TRUE)
         IN  <<FreeCount(bb, ii, ww)>> \o
                 NeighboursAtTokens(r.b, r.i, r.n, ww, Tail(s))

\* The same for the characters read so far, from the start position.
TokenPoints ==
    LET sc == StartCheck(Loaded.b, Loaded.n, f.x + 2, f.x, f.y,
                         start_x, start_y)
    IN  NeighboursAtTokens(sc.b, sc.i, sc.n, f.x + 2, g)

\* A compressed replay has been accepted.
QpathAccepted ==
    WellFormed /\ compressed /\ pc = "exit" /\ status = EXIT_SUCCESS

\* C16 as stated: in an accepted compressed replay every direction letter
\* is read at a cell with more than one open neighbour.
C16_Original ==
    QpathAccepted => \A k \in 1..Len(TokenPoints) : TokenPoints[k] > 1

\* C16 (amended): in an accepted compressed replay every direction letter
\* other than the first is read at a cell with more than one open
\* neighbour (two, opposite each other); the first is read at the start
\* cell whatever its neighbours, and every letter read starts a run.
C16_MinimalEncoding ==
    QpathAccepted =>
        /\ Len(TokenPoints) = Len(g) - 1
        /\ \A k \in 2..Len(TokenPoints) : TokenPoints[k] = 2

\* An accepted compressed replay of two letters: the first read at a start
\* cell with one open neighbour, the second where two are open.
C16_Witness ==
    /\ QpathAccepted
    /\ Len(TokenPoints) >= 2
    /\ TokenPoints[1] = 1
    /\ TokenPoints[2] = 2

----------------------------------------------------------------------------
\* Number of forced runs recorded in the trail: maximal stretches of steps
\* by the same offset.  (A run is never followed by one in the same or the
\* opposite direction: the cell ahead is blocked, the cell behind visited.)
Segments ==
    Cardinality({k \in 2..Len(trail) :
                    \/ k = 2
                    \/ trail[k] - trail[k - 1] # trail[k - 1] - trail[k - 2]})

\* An explicit replay is under way or has ended.
ExplicitReplay == WellFormed /\ path = "path" /\ Replaying

\* C17: in the explicit encoding the scan is never entered; a run begins
\* only at the read of a direction letter and in that letter's direction;
\* the cells change only inside a run; when the next character is awaited
\* the number of runs made equals the number of characters read, all of
\* them direction letters; and when the stream ends at a cell with exactly
\* one open neighbour the run ends with "path misses N fields".
C17_ExplicitTokenPerRun ==
    /\ [](ExplicitReplay =>
            /\ ~compressed /\ pc # "scan"
            /\ pc = "decision" => (AllDirections(g) /\ Segments = Len(g))
            /\ pc = "run" => (AllDirections(g)
                                /\ Segments \in {Len(g) - 1, Len(g)})
            /\ pc \in {"end_of_path", "exit"} =>
                   (AllDirections(Front(g)) /\ Segments = Len(g) - 1)
            /\ (pc = "exit" /\ StreamEnded /\ Cardinality(OpenDirs) = 1) =>
                   /\ n >= 1
                   /\ err = <<"path misses %u fields", n>>
                   /\ status = EXIT_FAILURE)
    /\ [][ExplicitReplay =>
            /\ (pc # "run" /\ pc' = "run") =>
                   /\ pc = "decision"
                   /\ g' = Append(g, Last(g'))
                   /\ Last(g') \in Directions
                   /\ d' = delta(w, DirOf(Last(g')))
            /\ pc # "run" => (trail' = trail /\ i' = i /\ n' = n)]_vars

\* An explicit replay of two letters has ended, by the end of the stream,
\* at a cell with exactly one open neighbour.
C17_Witness ==
    /\ ExplicitReplay /\ pc = "exit" /\ StreamEnded
    /\ Len(g) = 3 /\ Segments = 2
    /\ Cardinality(OpenDirs) = 1
    /\ err = <<"path misses %u fields", n>>

----------------------------------------------------------------------------
\* The cells entered by the do-while loop, in order.
RECURSIVE ForcedRunCells(_, _, _, _)
ForcedRunCells(bb, ii, nn, dd) ==
    LET s == StepBody(bb, ii, nn, dd)
    IN  <<s.i>> \o (IF ~Blocked(s.b, s.i, dd)
                    THEN ForcedRunCells(s.b, s.i, s.n, dd)
                    ELSE <<>>)

\* The cells entered by the inner for (;;), in order.
RECURSIVE RunsCells(_, _, _, _, _, _)
RunsCells(bb, ii, nn, dd, ww, comp) ==
    LET s == ForcedRun(bb, ii, nn, dd)
        sc == ScanFrom(s.b, s.i, ww, 0)
    IN  ForcedRunCells(bb, ii, nn, dd) \o
           (IF AfterRun(comp) = "decision" \/ sc.decision THEN <<>>
            ELSE RunsCells(s.b, s.i, s.n, sc.d, ww, comp))

\* The cells entered by the replay of the stream s, in order.
RECURSIVE ReplayCells(_, _, _, _, _, _)
ReplayCells(bb, ii, nn, ww, comp, s) ==
    IF s = <<>> THEN <<>>
    ELSE IF Head(s) \notin Directions THEN <<>>
    ELSE IF Blocked(bb, ii, delta(ww, DirOf(Head(s)))) THEN <<>>
    ELSE LET dd == delta(ww, DirOf(Head(s)))
             r == Runs(bb, ii, nn, dd, ww, comp)
         IN  RunsCells(bb, ii, nn, dd, ww, comp) \o
                 ReplayCells(r.b, r.i, r.n, ww, comp, Tail(s))

\* The letter of a buffer offset.
LetterOf(ww, dd) ==
    CASE dd = delta(ww, 0) -> "L"
      [] dd = delta(ww, 1) -> "U"
      [] dd = delta(ww, 2) -> "R"
      [] dd = delta(ww, 3) -> "D"

\* The explicit stream s without every letter, other than the first, that
\* is read at a cell with exactly one open neighbour.
RECURSIVE DeleteForced(_, _, _, _, _, _)
DeleteForced(bb, ii, nn, ww, s, first) ==
    IF s = <<>> THEN <<>>
    ELSE IF Head(s) \notin Directions THEN s
    ELSE IF Blocked(bb, ii, delta(ww, DirOf(Head(s)))) THEN s
    ELSE LET r == ForcedRun(bb, ii, nn, delta(ww, DirOf(Head(s))))
             rest == DeleteForced(r.b, r.i, r.n, ww, Tail(s), FALSE)
         IN  IF ~first /\ FreeCount(bb, ii, ww) = 1
             THEN rest
             ELSE <<Head(s)>> \o rest

\* The letters of the directions the scan commits to after a run by dd.
RECURSIVE RunsLetters(_, _, _, _, _)
RunsLetters(bb, ii, nn, dd, ww) ==
    LET s == ForcedRun(bb, ii, nn, dd)
        sc == ScanFrom(s.b, s.i, ww, 0)
    IN  IF sc.decision THEN <<>>
        ELSE <<LetterOf(ww, sc.d)>> \o RunsLetters(s.b, s.i, s.n, sc.d, ww)

\* The compressed stream s with the letter of every direction the scan
\* commits to inserted where it commits.
RECURSIVE InsertCommitted(_, _, _, _, _)
InsertCommitted(bb, ii, nn, ww, s) ==
    IF s = <<>> THEN <<>>
    ELSE IF Head(s) \notin Directions THEN s
    ELSE IF Blocked(bb, ii, delta(ww, DirOf(Head(s)))) THEN s
    ELSE LET dd == delta(ww, DirOf(Head(s)))
             r == Runs(bb, ii, nn, dd, ww, TRUE)
         IN  <<Head(s)>> \o RunsLetters(bb, ii, nn, dd, ww) \o
                 InsertCommitted(r.b, r.i, r.n, ww, Tail(s))

\* Buffer, position and count when the replay begins.
AtStart ==
    StartCheck(Loaded.b, Loaded.n, f.x + 2, f.x, f.y, start_x, start_y)

\* The characters read so far without the forced letters, and with the
\* committed directions inserted.
Deleted == DeleteForced(AtStart.b, AtStart.i, AtStart.n, f.x + 2, g, TRUE)
Inserted == InsertCommitted(AtStart.b, AtStart.i, AtStart.n, f.x + 2, g)

\* The cells entered when stream s is replayed from the start, compressed
\* or not.
CellsOf(comp, s) ==
    ReplayCells(AtStart.b, AtStart.i, AtStart.n, f.x + 2, comp, s)

\* The outcome of stream s under key on the same board and start.
OutcomeOf(key, s) ==
    Verify(Loaded.b, Loaded.n, f.x + 2, f.x, f.y, key, start_x, start_y, s)

\* C18: when an explicit stream has been accepted, the stream without the
\* letters (other than the first) read at a cell with exactly one open
\* neighbour is accepted under qpath and enters the same cells in the
\* same order; when a compressed stream has been accepted, the stream
\* with the committed directions inserted is accepted under path and
\* enters the same cells in the same order.
C18_PathQpath ==
    /\ (ExplicitEnded /\ status = EXIT_SUCCESS) =>
          /\ CellsOf(FALSE, g) = Tail(trail)
          /\ OutcomeOf("qpath", Deleted).status = EXIT_SUCCESS
          /\ CellsOf(TRUE, Deleted) = Tail(trail)
    /\ QpathAccepted =>
          /\ CellsOf(TRUE, g) = Tail(trail)
          /\ OutcomeOf("path", Inserted).status = EXIT_SUCCESS
          /\ CellsOf(FALSE, Inserted) = Tail(trail)

\* An explicit stream of at least four letters has been accepted; two
\* consecutive letters of it are forced and left out, and one letter other
\* than the first is kept.
C18_Witness ==
    /\ ExplicitEnded /\ status = EXIT_SUCCESS
    /\ Len(g) >= 5
    /\ Len(Deleted) <= Len(g) - 2
    /\ Len(Deleted) >= 3
    /\ CellsOf(TRUE, Deleted) = Tail(trail)

----------------------------------------------------------------------------
\* The checks in their order, stated on the board file and the solution in
\* (row, column) terms.  A read failure counts as the failure of the
\* character at which it occurs.

\* Positions (from 1, row-major) among the first x*y of the board text
\* that are missing or hold a character other than '.' and 'X'.
BadPositions ==
    {k \in 1..(f.x * f.y) : k > Len(f.text) \/ f.text[k] \notin {".", "X"}}

\* The diagnostic for board position k.
BoardError(k) ==
    IF k > Len(f.text) THEN <<"board too short">>
    ELSE IF f.text[k] = "EIO" THEN <<"read error">>
    ELSE <<"invalid board char at %ux%u", (k - 1) \div f.x, (k - 1) % f.x>>

Failure(msg) == [err |-> msg, status |-> EXIT_FAILURE]

\* The moves towards open cells from position p.
OpenMoves(p, open) ==
    {m \in {Move("L"), Move("U"), Move("R"), Move("D")} :
        Shift(p, m) \in open}

\* The compressed encoding's continuation: while exactly one neighbour is
\* open, slide towards it.
RECURSIVE AutoSlide(_, _)
AutoSlide(p, open) ==
    IF Cardinality(OpenMoves(p, open)) = 1
    THEN LET s == Slide(p, open, CHOOSE m \in OpenMoves(p, open) : TRUE)
         IN  AutoSlide(s.pos, s.open)
    ELSE [legal |-> TRUE, pos |-> p, open |-> open]

\* The stream checked character by character from position p; status -1
\* when the characters ts give no outcome yet.
RECURSIVE StreamOutcome(_, _, _, _)
StreamOutcome(ts, p, open, comp) ==
    IF ts = <<>> THEN [err |-> <<>>, status |-> -1]
    ELSE IF Head(ts) = "EIO" THEN Failure(<<"read error">>)
    ELSE IF Head(ts) \in Terminators
         THEN IF open = {}
              THEN [err |-> <<>>, status |-> EXIT_SUCCESS]
              ELSE Failure(<<"path misses %u fields", Cardinality(open)>>)
    ELSE IF Head(ts) \notin Directions
         THEN Failure(<<"invalid char in path">>)
    ELSE IF Shift(p, Move(Head(ts))) \notin open
         THEN Failure(<<"direction is blocked">>)
    ELSE LET s == Slide(p, open, Move(Head(ts)))
             a == IF comp THEN AutoSlide(s.pos, s.open) ELSE s
         IN  StreamOutcome(Tail(ts), a.pos, a.open, comp)

\* The outcome of the first failing check.
Expected ==
    IF ~f.hdr_ok THEN Failure(<<"could not parse board size">>)
    ELSE IF BadPositions # {}
    THEN Failure(BoardError(CHOOSE k \in BadPositions :
                                \A j \in BadPositions : k <= j))
    ELSE IF path = "" THEN Failure(<<"could not parse start position">>)
    ELSE IF path \notin {"path", "qpath"}
    THEN Failure(<<"did not recognize path type">>)
    ELSE IF start_y >= f.y \/ start_x >= f.x
    THEN Failure(<<"start position not on board">>)
    ELSE IF StartCell \notin OrigOpen
    THEN Failure(<<"start position is blocked">>)
    ELSE StreamOutcome(g, StartCell, OrigOpen \ {StartCell},
                       path = "qpath")

\* C19: a run has an exit status exactly when it has ended, no
\* diagnostic before that and no step after it; diagnostic and status are
\* those of the first failing check in the order board header, board
\* characters, solution header, key, start bounds, start cell, stream
\* characters, coverage.  With a malformed board nothing of the solution
\* has been read; an unrecognised key is reported whatever the start; on
\* a blocked direction the blocked letter is the last character read.
C19_FirstFailingCheck ==
    /\ [](pc = "exit" <=> status # -1)
    /\ [](pc # "exit" => err = <<>>)
    /\ [](pc = "exit" => [err |-> err, status |-> status] = Expected)
    /\ []((pc = "exit" /\ ~WellFormed) =>
             /\ path = "" /\ g = <<>> /\ start_x = 0 /\ start_y = 0
             /\ err[1] \in {"could not parse board size", "board too short",
                            "read error", "invalid board char at %ux%u"})
    /\ []((pc = "exit" /\ path \notin {"", "path", "qpath"}) =>
             err = <<"did not recognize path type">>)
    /\ []((pc = "exit" /\ err = <<"direction is blocked">>) =>
             (AllDirections(g) /\ g # <<>>))
    /\ [][pc # "exit"]_vars

\* An unrecognised key with a start outside the board has been rejected
\* for the key.
C19_Witness ==
    /\ pc = "exit" /\ WellFormed /\ OrigOpen # {}
    /\ path = "xpath"
    /\ start_x >= f.x /\ start_y >= f.y
    /\ err = <<"did not recognize path type">>

----------------------------------------------------------------------------
\* The cells entered so far, as a set.
Visited == {trail[k] : k \in 1..Len(trail)}

\* C20 (termination): every run reaches exit; a run begins, at a letter or
\* at a commit of the scan, only towards an open cell not entered before,
\* and each of its steps enters such a cell; hence the cells entered are
\* distinct, at most as many as the board file has open cells, and the
\* number of runs is at most that number minus one.
C20_Termination ==
    /\ <>(pc = "exit")
    /\ [][(WellFormed /\ pc \in {"decision", "scan"} /\ pc' = "run") =>
            /\ b[i + d'] # 0
            /\ i + d' \notin Visited
            /\ RowCol(i + d') \in OrigOpen]_vars
    /\ [][(WellFormed /\ pc = "run") =>
            /\ i' \notin Visited
            /\ RowCol(i') \in OrigOpen
            /\ Cardinality(OpenIn(b')) = Cardinality(OpenIn(b)) - 1]_vars
    /\ [](WellFormed /\ Replaying =>
            /\ Cardinality(Visited) = Len(trail)
            /\ Len(trail) <= Cardinality(OrigOpen)
            /\ Segments <= Cardinality(OrigOpen) - 1)

\* A compressed replay of a single letter has ended after three runs, two
\* of them begun by the scan.
C20_Witness ==
    /\ WellFormed /\ compressed /\ pc = "exit"
    /\ Len(g) = 2 /\ StreamEnded
    /\ Segments >= 3

----------------------------------------------------------------------------
\* The last character read is end of file, CR or LF.
AtTerminator == g # <<>> /\ Last(g) \in {"EOF", "\r", "\n"}

\* One more character that could follow in the solution file.
OneMore == {<<c>> : c \in {"L", "U", "R", "D", "\r", "\n", "z", "l", " "}}

\* C21: the characters are read one at a time, each at a decision and
\* every decision reads one; once end of file, CR or LF has been read
\* nothing more is read, the grid and the count stay as they are, and the
\* outcome is that of the coverage test, the same whatever character
\* follows in the file; any other character that is not L, U, R or D (a
\* lowercase letter and a space among them) ends the run with "invalid
\* char in path", also when no open cell remains.
C21_StreamOrder ==
    /\ [][g' # g =>
            /\ pc = "decision"
            /\ Len(g') = Len(g) + 1
            /\ SubSeq(g', 1, Len(g)) = g]_vars
    /\ [][pc = "decision" => g' # g]_vars
    /\ [][AtTerminator => (g' = g /\ b' = b /\ n' = n /\ i' = i)]_vars
    /\ [](AtTerminator =>
            /\ pc \in {"end_of_path", "exit"}
            /\ \A k \in 1..(Len(g) - 1) : g[k] \in {"L", "U", "R", "D"}
            /\ pc = "exit" =>
                  /\ (status = EXIT_SUCCESS) <=> (n = 0)
                  /\ n = 0 => err = <<>>
                  /\ n # 0 => err = <<"path misses %u fields", n>>
                  /\ \A t \in OneMore :
                        OutcomeOf(path, g \o t)
                            = [err |-> err, status |-> status])
    /\ []((g # <<>> /\ Last(g) \in {"z", "l", " "}) =>
            /\ pc = "exit"
            /\ err = <<"invalid char in path">>
            /\ status = EXIT_FAILURE)

\* Every open cell has been visited and a lowercase l is read next: the
\* run has ended with "invalid char in path".
C21_Witness ==
    /\ WellFormed /\ pc = "exit" /\ n = 0
    /\ Len(g) >= 3 /\ Last(g) = "l"
    /\ Len(trail) >= 3
    /\ err = <<"invalid char in path">>

----------------------------------------------------------------------------
\* The first x*y characters of the board text.
FirstCells ==
    SubSeq(f.text, 1, IF Len(f.text) < f.x * f.y THEN Len(f.text)
                      ELSE f.x * f.y)

\* The first position of the board text, in row-major order, that is
\* missing or holds a character other than '.' and 'X'.
FirstBad == CHOOSE k \in BadPositions : \A j \in BadPositions : k <= j

\* C22: with the header read and the first x*y characters all '.' or 'X',
\* loading ends without diagnostic; the grid is open exactly at the
\* bordered cells (r+1, c+1) whose character r*x+c is '.', the border is
\* blocked, the count is the number of '.' among those characters, and
\* the same grid and count result from the first x*y characters alone.
\* Otherwise the run ends in loading, by the first missing or offending
\* position: "board too short" when the text ends there, "invalid board
\* char at ROWxCOL" for a character that is neither.
C22_BoardLoading ==
    /\ [](f.hdr_ok /\ pc # "read_board" =>
            /\ board_w = f.x /\ board_h = f.y
            /\ w = f.x + 2 /\ h = f.y + 2)
    /\ [](WellFormed /\ pc = "check_solution" =>
            /\ err = <<>>
            /\ DOMAIN b = 0..((f.x + 2) * (f.y + 2) - 1)
            /\ \A rc \in Cells :
                  (b[(rc[1] + 1) * (f.x + 2) + rc[2] + 1] # 0)
                      <=> (f.text[rc[1] * f.x + rc[2] + 1] = ".")
            /\ \A k \in Border : b[k] = 0
            /\ n = Cardinality({k \in 1..(f.x * f.y) : f.text[k] = "."})
            /\ LoadLoop(FirstCells, w, h, 1, 1, 0, Calloc(h * w), 0)
                  = [err |-> <<>>, b |-> b, n |-> n])
    /\ []((WellFormed /\ pc = "exit" /\ path = "") =>
             err = <<"could not parse start position">>)
    /\ [](f.hdr_ok /\ ~WellFormed /\ pc # "read_board" =>
            /\ pc = "exit" /\ status = EXIT_FAILURE
            /\ FirstBad > Len(f.text) => err = <<"board too short">>
            /\ (FirstBad <= Len(f.text) /\ f.text[FirstBad] = "?") =>
                  err = <<"invalid board char at %ux%u",
                          (FirstBad - 1) \div f.x, (FirstBad - 1) % f.x>>)

\* A board of two rows whose text has a character after the first x*y has
\* been loaded: a wall, open cells, and the extra character left unread.
C22_Witness ==
    /\ WellFormed /\ pc = "check_solution"
    /\ f.y = 2
    /\ Len(f.text) > f.x * f.y
    /\ f.text[Len(f.text)] = "?"
    /\ n >= 1 /\ n < f.x * f.y

----------------------------------------------------------------------------
\* a < b for two u4 values; those from 2^31 on are held as negative
\* numbers (UINT_MAX is -1).
ULess(a, c) ==
    \/ a >= 0 /\ c < 0
    \/ (a >= 0 <=> c >= 0) /\ a < c

\* C23: once the header has been read, w and h are two more than the
\* width and height of the header (the additions did not wrap, so each
\* sum is above its operand), h * w cells are allocated, and every index
\* the loading loops write to is below that count; the program is not
\* ended by a write outside the buffer.
C23_NoWrap ==
    (f.hdr_ok /\ pc # "read_board") =>
        /\ ULess(board_w, w) /\ ULess(board_h, h)
        /\ DOMAIN b = 0..(h * w - 1)
        /\ LoadWrites(f.text, w, h, 1, 1, 0) \subseteq DOMAIN b
        /\ pc # "crash"

----------------------------------------------------------------------------
\* The failures on which, with -d, the board is dumped.
DumpedFailure ==
    /\ pc = "exit" /\ err # <<>>
    /\ err[1] \in {"start position is blocked", "direction is blocked",
                   "path misses %u fields"}

\* The board dump among the debug output.
BoardDump == IF err = <<"direction is blocked">> THEN dump[2] ELSE dump[1]

\* C24: with -d, each of the three failures that dump the board produces
\* one dump, of the size of the board file, in which the cell of the
\* current position (the start cell when the start is blocked) and no
\* other shows '@'; every other cell shows 'X' iff the board file has a
\* wall there, '#' iff it is an empty cell of the board file that has
\* been entered, '.' iff it is an empty cell not yet entered; the position
\* printed is (column, row) of the current cell in board coordinates.
C24_DebugRendering ==
    (WellFormed /\ debug_mode /\ DumpedFailure) =>
        LET out == BoardDump
            cur == RowCol(i)
        IN  /\ Len(dump) = IF err = <<"start position is blocked">>
                           THEN 1 ELSE 2
            /\ out.size = <<f.x, f.y>>
            /\ out.pos = <<cur[2], cur[1]>>
            /\ cur \in Cells
            /\ err = <<"start position is blocked">> => cur = StartCell
            /\ Replaying => i = Last(trail)
            /\ DOMAIN out.rows = 1..f.y
            /\ \A rc \in Cells :
                  LET gl == out.rows[rc[1] + 1][rc[2] + 1]
                  IN  /\ gl \in {"@", "X", "#", "."}
                      /\ (gl = "@") <=> (rc = cur)
                      /\ rc # cur =>
                           /\ (gl = "X") <=> (CharAt(rc[1], rc[2]) = "X")
                           /\ (gl = "#") <=>
                                 (rc \in OrigOpen /\ Idx(rc) \in Visited)
                           /\ (gl = ".") <=> (rc \in CurOpen)

\* With -d, a replay that entered cells on a board with walls has ended
\* with cells left over: the dump shows all four glyphs.
C24_Witness ==
    /\ WellFormed /\ debug_mode /\ pc = "exit"
    /\ err # <<>> /\ err[1] = "path misses %u fields"
    /\ Len(dump) = 2
    /\ Glyphs(dump[1]) = {"@", "X", "#", "."}
    /\ dump[2] = <<"Remaining unvisited cells: %u", n>>

----------------------------------------------------------------------------
\* C25: when no open cell remains the current cell has no open neighbour;
\* a direction letter read at a cell with no open neighbour ends the run
\* with "direction is blocked", in either encoding, the grid and the count
\* untouched; an accepted stream consists of direction letters, fewer than
\* the board file has empty cells, followed by its end, and is accepted at
\* a cell with no open neighbour.
C25_DeadEnd ==
    /\ []((WellFormed /\ Replaying /\ n = 0) => OpenDirs = {})
    /\ [][(/\ WellFormed /\ pc = "decision"
           /\ OpenDirs = {}
           /\ Last(g') \in {"L", "U", "R", "D"}) =>
            /\ pc' = "exit"
            /\ err' = <<"direction is blocked">>
            /\ status' = EXIT_FAILURE
            /\ n' = n /\ i' = i /\ trail' = trail
            /\ OpenIn(b') = OpenIn(b)]_vars
    /\ [](status = EXIT_SUCCESS =>
            /\ \A k \in 1..(Len(g) - 1) : g[k] \in {"L", "U", "R", "D"}
            /\ Len(g) - 1 <= Cardinality(OrigOpen) - 1
            /\ OpenDirs = {}
            /\ CurOpen = {})

\* In the compressed encoding every empty cell has been entered and one
\* more direction letter has been read: the run has ended with "direction
\* is blocked".
C25_Witness ==
    /\ WellFormed /\ compressed /\ pc = "exit"
    /\ n = 0 /\ Len(trail) >= 4
    /\ Len(g) >= 2 /\ Last(g) \in Directions
    /\ err = <<"direction is blocked">>

----------------------------------------------------------------------------
\* C26 (grid monotonicity): after loading, a blocked cell stays blocked;
\* the border cells and the cells of walls are blocked in every state; the
\* grid changes only in a step that brings the mover to a cell (the start
\* cell, or the next cell of a run), and then at that cell alone, which
\* was open and becomes blocked; the cell the mover is on is blocked.
C26_GridMonotone ==
    /\ [][(WellFormed /\ pc # "read_board") =>
            /\ DOMAIN b' = DOMAIN b
            /\ \A k \in DOMAIN b : b[k] = 0 => b'[k] = 0
            /\ b' # b =>
                  /\ pc \in {"check_solution", "run"}
                  /\ b[i'] # 0
                  /\ b' = [b EXCEPT ![i'] = 0]
                  /\ trail' = Append(trail, i')
            /\ trail' # trail => (b' # b /\ i' = Last(trail'))
            /\ (Replaying /\ i' # i) => trail' # trail]_vars
    /\ []((WellFormed /\ pc # "read_board") =>
            \A k \in DOMAIN b :
                (k \in Border \/ RowCol(k) \notin OrigOpen) => b[k] = 0)
    /\ []((WellFormed /\ Replaying) =>
            /\ i = Last(trail)
            /\ b[i] = 0
            /\ \A k \in Visited : b[k] = 0)

\* A run is under way on a board with a wall: the mover is on a cell it
\* has marked, cells behind it are marked, cells ahead are open.
C26_Witness ==
    /\ WellFormed /\ pc = "run" /\ Len(trail) >= 3
    /\ OrigOpen # Cells
    /\ b[i] = 0 /\ b[i + d] # 0
    /\ \A k \in Visited : b[k] = 0

====
